---------------------------- MODULE Spec2Model ----------------------------
(***************************************************************************)
(* Model of api/index.py: the UPSDRI risk-scoring service.                 *)
(*                                                                         *)
(*   get_dynamic_environmental_data, get_age, get_age_group,               *)
(*   calculate_dengue_risk, calculate_respiratory_risk, analyze_risk       *)
(*   are pure functions and are modelled as operators.                     *)
(*   save_profile and get_prediction are the two request handlers; the     *)
(*   Firestore collection 'userProfiles' is the variable store.            *)
(*                                                                         *)
(* Representation of Python values                                         *)
(*   - a str that the code inspects character by character (core.name,     *)
(*     core.dob, the request's name) is a sequence of one-character        *)
(*     strings, wrapped as a JSON value [t, s, n];                         *)
(*   - a str that the code only compares (district, occupation, the        *)
(*     members of conditions) is a TLA+ string; null is the string None    *)
(*     and an absent key the string Missing;                               *)
(*   - a function that may raise returns [raised, exc, value].             *)
(*   - the Dengue calculator divides by 4 (line 113), so its scores are    *)
(*     Python floats that are multiples of 1/4.  They are counted here in  *)
(*     quarter points: a Dengue score s of the code is the integer         *)
(*     s * ScoreScale of the model.  Respiratory scores are plain ints.    *)
(***************************************************************************)
EXTENDS Integers, Sequences, FiniteSets, TLC

VARIABLES
    db_available,   \* the firebase app was initialised at import (lines 14-25)
    store,          \* collection 'userProfiles': document id -> document or NoDoc
    saved,          \* history: id -> the document the last successful save stored
    now_year,       \* datetime.now().year
    request,        \* the request being answered: [op, body]
    response,       \* the handler's answer: [status, message, predictions]
    profile,        \* argument of the calculators
    env_data,       \* argument of the calculators
    result,         \* value returned by the function applied last
    pc,             \* which function was applied last
    dob_str,        \* argument of get_age
    age             \* argument of get_age_group

vars == <<db_available, store, saved, now_year, request, response,
          profile, env_data, result, pc, dob_str, age>>

-----------------------------------------------------------------------------
(* Python values *)

None == "None"

JAbsent == [t |-> "absent", s |-> <<>>, n |-> 0]
JNull == [t |-> "null", s |-> <<>>, n |-> 0]
JStr(chars) == [t |-> "str", s |-> chars, n |-> 0]
JNum(k) == [t |-> "num", s |-> <<>>, n |-> k]
\* true / false, and a JSON array or object with k members
JBool(b) == [t |-> "bool", s |-> <<>>, n |-> IF b THEN 1 ELSE 0]
JList(k) == [t |-> "list", s |-> <<>>, n |-> k]
JDict(k) == [t |-> "dict", s |-> <<>>, n |-> k]

\* dict.get(key): an absent key reads as None
IsNone(v) == v.t \in {"absent", "null"}

\* Python truthiness, as used by 'not dob_str' and 'not user_name'
Falsy(v) ==
    \/ IsNone(v)
    \/ v.t = "str" /\ v.s = <<>>
    \/ v.t \in {"num", "bool", "list", "dict"} /\ v.n = 0

Returned(v) == [raised |-> FALSE, exc |-> "", value |-> v]
Raised(e) == [raised |-> TRUE, exc |-> e, value |-> 0]

-----------------------------------------------------------------------------
(* str.replace(" ", "_").lower(), lines 210 and 224 *)

UpperCase == <<"A", "B", "R", "U">>
LowerCase == <<"a", "b", "r", "u">>

CharLower(c) ==
    IF \E i \in 1..Len(UpperCase) : UpperCase[i] = c
    THEN LowerCase[CHOOSE i \in 1..Len(UpperCase) : UpperCase[i] = c]
    ELSE c

CharReplaceSpace(c) == IF c = " " THEN "_" ELSE c

document_id(chars) ==
    [i \in 1..Len(chars) |-> CharLower(CharReplaceSpace(chars[i]))]

unknown_user == <<"u", "n", "k", "n", "o", "w", "n", "_", "u", "s", "e", "r">>

-----------------------------------------------------------------------------
(* datetime.strptime(dob_str, '%Y-%m-%d').year, line 60 *)

Digits == <<"0", "1", "2", "3", "4", "5", "6", "7", "8", "9">>

IsDigit(c) == \E i \in 1..10 : Digits[i] = c

DigitVal(c) == (CHOOSE i \in 1..10 : Digits[i] = c) - 1

AllDigits(chars) == \A i \in 1..Len(chars) : IsDigit(chars[i])

RECURSIVE Number(_)
Number(chars) ==
    IF chars = <<>> THEN 0
    ELSE 10 * Number(SubSeq(chars, 1, Len(chars) - 1)) + DigitVal(chars[Len(chars)])

\* %m matches 1[0-2] | 0[1-9] | [1-9]
MatchesMonth(chars) ==
    /\ Len(chars) \in {1, 2}
    /\ AllDigits(chars)
    /\ Number(chars) \in 1..12

\* %d matches 3[0-1] | [1-2]\d | 0[1-9] | [1-9] | " "[1-9]
MatchesDay(chars) ==
    \/ /\ Len(chars) \in {1, 2}
       /\ AllDigits(chars)
       /\ Number(chars) \in 1..31
    \/ /\ Len(chars) = 2
       /\ chars[1] = " "
       /\ IsDigit(chars[2])
       /\ DigitVal(chars[2]) \in 1..9

DayValue(chars) ==
    IF chars[1] = " " THEN DigitVal(chars[2]) ELSE Number(chars)

IsLeap(y) == (y % 4 = 0 /\ y % 100 # 0) \/ y % 400 = 0

DaysInMonth(y, m) ==
    IF m = 2 THEN (IF IsLeap(y) THEN 29 ELSE 28)
    ELSE IF m \in {4, 6, 9, 11} THEN 30 ELSE 31

\* position of the first "-" at or after index from, 0 when there is none
FirstDash(chars, from) ==
    IF \E i \in from..Len(chars) : chars[i] = "-"
    THEN CHOOSE i \in from..Len(chars) :
            /\ chars[i] = "-"
            /\ \A j \in from..(i - 1) : chars[j] # "-"
    ELSE 0

\* the year of the parsed date, or ValueError
strptime_year(chars) ==
    LET dash == FirstDash(chars, 6)
        y == Number(SubSeq(chars, 1, 4))
        mchars == SubSeq(chars, 6, dash - 1)
        dchars == SubSeq(chars, dash + 1, Len(chars))
    IN  IF /\ Len(chars) >= 8
           /\ AllDigits(SubSeq(chars, 1, 4))
           /\ chars[5] = "-"
           /\ dash > 6
           /\ MatchesMonth(mchars)
           /\ MatchesDay(dchars)
           /\ y >= 1
           /\ DayValue(dchars) <= DaysInMonth(y, Number(mchars))
        THEN Returned(y)
        ELSE Raised("ValueError")

-----------------------------------------------------------------------------
(* Environmental simulator, lines 28-55 *)

\* a key that is absent from a dict, where the code tells it from null
Missing == "Missing"

\* lines 34-47; now = datetime(2025, 9, 13, 17, 18)
base_data ==
    [timestamp |-> "2025-09-13T17:18:00",
     season |-> "Post-Monsoon",
     weeks_since_monsoon_peak |-> 4,
     days_since_last_rain |-> 4,
     hour_of_day |-> 17,
     aqi |-> 110,
     temperature_c |-> 29,
     local_vector_index |-> 28,
     local_outbreak_alert |-> "Dengue"]

\* a plausible slip: the pollution override lands in the next AQI band
get_dynamic_environmental_data_band(district) ==
    LET data1 == IF district \in {"Ghaziabad", "Noida", "Kanpur Nagar"}
                 THEN [base_data EXCEPT !.aqi = 250]
                 ELSE base_data
    IN  IF district = "Gorakhpur"
        THEN [data1 EXCEPT !.local_outbreak_alert = "AES"]
        ELSE data1

\* a plausible slip: the two overrides are chained with elif on one district list
get_dynamic_environmental_data_swapped(district) ==
    IF district \in {"Ghaziabad", "Noida", "Kanpur Nagar", "Gorakhpur"}
    THEN [base_data EXCEPT !.aqi = 150]
    ELSE base_data

get_dynamic_environmental_data(district) ==
    LET data1 == IF district \in {"Ghaziabad", "Noida", "Kanpur Nagar"}
                 THEN [base_data EXCEPT !.aqi = 150]
                 ELSE base_data
    IN  IF district = "Gorakhpur"
        THEN [data1 EXCEPT !.local_outbreak_alert = "AES"]
        ELSE data1

-----------------------------------------------------------------------------
(* Age utilities, lines 58-67 *)

get_age(dob, year) ==
    IF Falsy(dob) THEN Returned(30)
    ELSE IF dob.t # "str" THEN Raised("TypeError")
    ELSE LET y == strptime_year(dob.s)
         IN  IF y.raised THEN y ELSE Returned(year - y.value)

\* a plausible slip: exclusive upper bounds
get_age_group_exclusive(a) ==
    IF a < 5 THEN "0-5"
    ELSE IF a < 15 THEN "6-15"
    ELSE IF a < 40 THEN "16-40"
    ELSE IF a < 60 THEN "41-60"
    ELSE ">60"

get_age_group(a) ==
    IF a <= 5 THEN "0-5"
    ELSE IF a <= 15 THEN "6-15"
    ELSE IF a <= 40 THEN "16-40"
    ELSE IF a <= 60 THEN "41-60"
    ELSE ">60"

-----------------------------------------------------------------------------
(* Shared pieces of the calculators *)

Min(a, b) == IF a <= b THEN a ELSE b

\* sum(item['score'] for item in score_card), lines 121 and 169
RECURSIVE SumScores(_)
SumScores(score_card) ==
    IF score_card = <<>> THEN 0
    ELSE score_card[1].score + SumScores(Tail(score_card))

Item(param, value, score) == [param |-> param, value |-> value, score |-> score]

\* dict.get(key) and dict.get(key, default) on a key that may be absent
Get(v) == IF v = Missing THEN None ELSE v
GetOr(v, default) == IF v = Missing THEN default ELSE v

-----------------------------------------------------------------------------
(* calculate_dengue_risk, lines 71-132.  Scores in quarter points. *)

\* line 113 divides the vector index by 4: one point is ScoreScale quarters
ScoreScale == 4

\* lines 82-85: weights.get(age_group, 1) * scores.get(age_group, 3)
dengue_age_points(age_group) ==
    LET weight == CASE age_group = "6-15" -> 3
                    [] age_group = "16-40" -> 2
                    [] age_group = ">60" -> 4
                    [] OTHER -> 1
        score == CASE age_group = "6-15" -> 7
                   [] age_group = "16-40" -> 5
                   [] age_group = ">60" -> 6
                   [] OTHER -> 3
    IN  weight * score

\* line 89
urban_districts ==
    {"Lucknow", "Kanpur Nagar", "Ghaziabad", "Gautam Buddh Nagar",
     "Varanasi", "Prayagraj", "Meerut", "Agra"}

\* lines 96-97
monsoon_points(weeks) == 5 * Min(10, weeks * 2)

\* a plausible slip: the stagnation score counts down from the day of the rain
rain_points_decay(days) == 5 * (IF 10 - days * 2 > 0 THEN 10 - days * 2 ELSE 0)

\* lines 101-102
rain_points(days) == 5 * Min(10, days * 2)

\* lines 106-108
hour_points(hour) ==
    3 * (IF (5 <= hour /\ hour <= 9) \/ (16 <= hour /\ hour <= 19) THEN 8 ELSE 3)

\* lines 112-113: 5 * (index / 4), true division; the result in quarter points
vector_quarters(index) == 5 * ((index * ScoreScale) \div 4)

\* a plausible slip: inclusive thresholds
dengue_level_inclusive(total_quarters) ==
    IF total_quarters >= 300 * ScoreScale THEN "VERY HIGH"
    ELSE IF total_quarters >= 200 * ScoreScale THEN "HIGH"
    ELSE IF total_quarters >= 100 * ScoreScale THEN "MODERATE"
    ELSE "LOW"

\* lines 122-125, on a total in quarter points
dengue_level(total_quarters) ==
    IF total_quarters > 300 * ScoreScale THEN "VERY HIGH"
    ELSE IF total_quarters > 200 * ScoreScale THEN "HIGH"
    ELSE IF total_quarters > 100 * ScoreScale THEN "MODERATE"
    ELSE "LOW"

\* a plausible slip: the Diabetes penalty is given the weight of a factor
dengue_comorbidity_weighted(conditions) ==
    IF "Diabetes" \in conditions
    THEN <<Item("Co-morbidity", "Diabetes", 5 * 4 * ScoreScale)>>
    ELSE <<>>

\* lines 116-118
dengue_comorbidity(conditions) ==
    IF "Diabetes" \in conditions
    THEN <<Item("Co-morbidity", "Diabetes", 40 * ScoreScale)>>
    ELSE <<>>

dengue_score_card(prof, env, age_group) ==
    LET is_urban == Get(prof.core.district) \in urban_districts
    IN  <<Item("Age Group", age_group, dengue_age_points(age_group) * ScoreScale),
          Item("Location", IF is_urban THEN "Urban" ELSE "Rural",
               5 * (IF is_urban THEN 8 ELSE 4) * ScoreScale),
          Item("Weeks Since Monsoon Peak", env.weeks_since_monsoon_peak,
               monsoon_points(env.weeks_since_monsoon_peak) * ScoreScale),
          Item("Days Since Rain", env.days_since_last_rain,
               rain_points(env.days_since_last_rain) * ScoreScale),
          Item("Time of Day", ToString(env.hour_of_day) \o ":00",
               hour_points(env.hour_of_day) * ScoreScale),
          Item("Vector Index", ToString(env.local_vector_index) \o "%",
               vector_quarters(env.local_vector_index))>>
        \o dengue_comorbidity(prof.lifestyle.conditions)

calculate_dengue_risk(prof, env, year) ==
    LET a == get_age(prof.core.dob, year)
        score_card == dengue_score_card(prof, env, get_age_group(a.value))
        total_score == SumScores(score_card)
    IN  IF a.raised THEN a
        ELSE Returned([disease |-> "Dengue Fever",
                       score |-> total_score,
                       level |-> dengue_level(total_score),
                       details |-> score_card])

-----------------------------------------------------------------------------
(* calculate_respiratory_risk, lines 134-180 *)

\* a plausible slip: the AQI bands start one band early
aqi_points_early(aqi) ==
    5 * (IF aqi > 200 THEN 10
         ELSE IF aqi > 100 THEN 8
         ELSE IF aqi > 50 THEN 6
         ELSE 3)

\* lines 144-149
aqi_points(aqi) ==
    5 * (IF aqi > 300 THEN 10
         ELSE IF aqi > 200 THEN 8
         ELSE IF aqi > 100 THEN 6
         ELSE 3)

\* lines 153-156: weights.get(age_group, 2) * scores.get(age_group, 4)
respiratory_age_points(age_group) ==
    LET weight == CASE age_group = ">60" -> 5
                    [] age_group = "0-5" -> 4
                    [] OTHER -> 2
        score == CASE age_group = ">60" -> 9
                   [] age_group = "0-5" -> 8
                   [] OTHER -> 4
    IN  weight * score

\* lines 160-161
respiratory_comorbidity(conditions) ==
    IF "Asthma/COPD" \in conditions
    THEN <<Item("Co-morbidity", "Asthma/COPD", 80)>>
    ELSE <<>>

\* line 164
high_risk_jobs == {"Construction Worker", "Factory Worker", "Miner"}

\* lines 165-166
respiratory_occupation(occupation) ==
    IF Get(occupation) \in high_risk_jobs
    THEN <<Item("Occupation", Get(occupation), 30)>>
    ELSE <<>>

\* lines 170-173
respiratory_level(total_score) ==
    IF total_score > 250 THEN "VERY HIGH"
    ELSE IF total_score > 150 THEN "HIGH"
    ELSE IF total_score > 75 THEN "MODERATE"
    ELSE "LOW"

respiratory_score_card(prof, env, age_group) ==
    <<Item("AQI", env.aqi, aqi_points(env.aqi)),
      Item("Age Group", age_group, respiratory_age_points(age_group))>>
    \o respiratory_comorbidity(prof.lifestyle.conditions)
    \o respiratory_occupation(prof.lifestyle.occupation)

calculate_respiratory_risk(prof, env, year) ==
    LET a == get_age(prof.core.dob, year)
        score_card == respiratory_score_card(prof, env, get_age_group(a.value))
        total_score == SumScores(score_card)
    IN  IF a.raised THEN a
        ELSE Returned([disease |-> "Respiratory Illness",
                       score |-> total_score,
                       level |-> respiratory_level(total_score),
                       details |-> score_card])

-----------------------------------------------------------------------------
(* analyze_risk, lines 183-199 *)

analyze_risk(prof, year) ==
    LET district == GetOr(prof.core.district, "Lucknow")
        env == get_dynamic_environmental_data(district)
        dengue_analysis == calculate_dengue_risk(prof, env, year)
        respiratory_analysis == calculate_respiratory_risk(prof, env, year)
    IN  IF dengue_analysis.raised THEN dengue_analysis
        ELSE IF respiratory_analysis.raised THEN respiratory_analysis
        ELSE Returned([environmental_conditions |-> env,
                       risk_assessments |-> <<dengue_analysis.value,
                                              respiratory_analysis.value>>])

-----------------------------------------------------------------------------
(* Inputs *)

\* datetime.now().year ranges over YearLo..YearHi
YearLo == 2025
YearHi == 2026
Years == YearLo..YearHi

\* request.json of POST /api/profile
Profile(name, dob, district, conditions, occupation) ==
    [core |-> [name |-> name, dob |-> dob, district |-> district],
     lifestyle |-> [conditions |-> conditions, occupation |-> occupation]]

\* "%04d-%02d-%02d" of a date, as characters
FourDigits(y) ==
    <<Digits[((y \div 1000) % 10) + 1], Digits[((y \div 100) % 10) + 1],
      Digits[((y \div 10) % 10) + 1], Digits[(y % 10) + 1]>>
TwoDigits(k) == <<Digits[((k \div 10) % 10) + 1], Digits[(k % 10) + 1]>>
DobOf(y, m, d) == JStr(FourDigits(y) \o <<"-">> \o TwoDigits(m) \o <<"-">> \o TwoDigits(d))

Dob1990 == DobOf(1990, 1, 1)

\* strings that '%Y-%m-%d' does not parse
MalformedDobs ==
    {JStr(<<"n", "/", "a">>),
     JStr(<<"0", "1", "/", "0", "1", "/", "1", "9", "9", "0">>),
     JStr(<<"1", "9", "9", "0", "-", "1", "3", "-", "0", "1">>),
     JStr(<<"1", "9", "9", "0", "-", "0", "2", "-", "3", "0">>),
     JStr(<<"1", "9", "9", "0", "-", "0", "1", "-", "0", "1", "T">>),
     JStr(<<"9", "0", "-", "0", "1", "-", "0", "1">>)}

\* dob values for which 'not dob_str' holds
AbsentDobs == {JAbsent, JNull, JStr(<<>>)}

NameAR == <<"A", " ", "R">>
NameA_r == <<"a", "_", "r">>
NameB == <<"B">>
NameUnknownUser == <<"U", "n", "k", "n", "o", "w", "n", " ", "U", "s", "e", "r">>

EmptyProfile == Profile(JAbsent, JAbsent, Missing, {}, Missing)

NoRequest == [op |-> "none", is_object |-> FALSE, name |-> JAbsent, profile |-> EmptyProfile]
NoResponse == [status |-> 0, message |-> "", predictions |-> <<>>]
NoResult == Raised("not called")

-----------------------------------------------------------------------------
(* The service: save_profile and get_prediction, lines 203-238 *)

\* jsonify(...), status
Reply(status, message) == [status |-> status, message |-> message, predictions |-> <<>>]
ReplyPredictions(predictions) ==
    [status |-> 200, message |-> "", predictions |-> <<predictions>>]

\* doc_ref.set(profile_data): the document is replaced as a whole
Set(collection, id, document) ==
    [k \in DOMAIN collection \cup {id} |->
        IF k = id THEN document ELSE collection[k]]

\* lines 207-214: (response, collection after the request)
save_profile(body, collection, available) ==
    LET name == body.profile.core.name
        user_name == IF name.t = "absent" THEN unknown_user ELSE name.s
    IN  IF ~available
        THEN <<Reply(500, "ValueError: the default Firebase app does not exist"), collection>>
        ELSE IF ~body.is_object
        THEN <<Reply(500, "AttributeError: get"), collection>>
        ELSE IF name.t \notin {"absent", "str"}
        THEN <<Reply(500, "AttributeError: replace"), collection>>
        ELSE <<Reply(201, "Profile saved successfully!"),
               Set(collection, document_id(user_name), body.profile)>>

\* a plausible slip: the handler looks the profile up before it checks the name
get_prediction_unchecked(body, collection, available, year) ==
    LET user_name == body.name
        id == document_id(user_name.s)
        predictions == analyze_risk(collection[id], year)
    IN  IF ~body.is_object
        THEN Reply(500, "AttributeError: get")
        ELSE IF ~available
        THEN Reply(500, "ValueError: the default Firebase app does not exist")
        ELSE IF user_name.t # "str"
        THEN Reply(500, "AttributeError: replace")
        ELSE IF id \notin DOMAIN collection
        THEN Reply(404, "Profile not found.")
        ELSE IF predictions.raised
        THEN Reply(500, predictions.exc)
        ELSE ReplyPredictions(predictions.value)

\* lines 219-238: the response; the collection is only read
get_prediction(body, collection, available, year) ==
    LET user_name == body.name
        id == document_id(user_name.s)
        predictions == analyze_risk(collection[id], year)
    IN  IF ~body.is_object
        THEN Reply(500, "AttributeError: get")
        ELSE IF Falsy(user_name)
        THEN Reply(400, "User name is required.")
        ELSE IF ~available
        THEN Reply(500, "ValueError: the default Firebase app does not exist")
        ELSE IF user_name.t # "str"
        THEN Reply(500, "AttributeError: replace")
        ELSE IF id \notin DOMAIN collection
        THEN Reply(404, "Profile not found.")
        ELSE IF predictions.raised
        THEN Reply(500, predictions.exc)
        ELSE ReplyPredictions(predictions.value)

\* bodies of POST /api/profile
SaveNames == {JAbsent, JNull, JStr(NameAR), JStr(NameA_r)}
SaveDobs == {JAbsent, Dob1990, JStr(<<"n", "/", "a">>)}
SaveProfiles ==
    {Profile(n, d, "Ghaziabad", c, Missing) :
        n \in SaveNames, d \in SaveDobs, c \in {{}, {"Asthma/COPD"}}}
SaveBodies ==
    {[op |-> "save_profile", is_object |-> TRUE, name |-> JAbsent, profile |-> p] :
        p \in SaveProfiles}
    \cup {[op |-> "save_profile", is_object |-> FALSE, name |-> JAbsent,
           profile |-> EmptyProfile]}

\* bodies of POST /api/predict
PredictNames ==
    {JAbsent, JNull, JStr(<<>>), JNum(0), JNum(7), JBool(FALSE), JBool(TRUE),
     JList(0), JList(1), JDict(0), JDict(1), JStr(NameAR), JStr(NameA_r),
     JStr(NameB), JStr(<<"b">>), JStr(<<"R">>), JStr(NameUnknownUser)}
PredictBodies ==
    {[op |-> "get_prediction", is_object |-> TRUE, name |-> n, profile |-> EmptyProfile] :
        n \in PredictNames}
    \cup {[op |-> "get_prediction", is_object |-> FALSE, name |-> JAbsent,
           profile |-> EmptyProfile]}

\* the history variable: the last document each successful save stored, by the
\* id of its core.name (an absent name counts as 'unknown_user', line 209)
Remember(history, body, status) ==
    IF status = 201
    THEN Set(history,
             document_id(IF body.profile.core.name.t = "absent"
                         THEN unknown_user ELSE body.profile.core.name.s),
             body.profile)
    ELSE history

Idle ==
    /\ profile = EmptyProfile
    /\ env_data = base_data
    /\ result = NoResult
    /\ pc = "serve"
    /\ dob_str = JAbsent
    /\ age = 0

\* module import (lines 10-25) against an empty collection
Init ==
    /\ db_available \in BOOLEAN
    /\ store = <<>>
    /\ saved = <<>>
    /\ now_year \in Years
    /\ request = NoRequest
    /\ response = NoResponse
    /\ Idle

SaveProfile ==
    \E body \in SaveBodies :
        LET out == save_profile(body, store, db_available)
        IN  /\ request' = body
            /\ response' = out[1]
            /\ store' = out[2]
            /\ saved' = Remember(saved, body, out[1].status)
            /\ UNCHANGED <<db_available, now_year, profile, env_data, result, pc,
                           dob_str, age>>

GetPrediction ==
    \E body \in PredictBodies :
        /\ request' = body
        /\ response' = get_prediction(body, store, db_available, now_year)
        /\ UNCHANGED <<db_available, store, saved, now_year, profile, env_data,
                       result, pc, dob_str, age>>

Next == SaveProfile \/ GetPrediction

Spec == Init /\ [][Next]_vars

-----------------------------------------------------------------------------
(* analyze_risk applied to one profile: SpecAnalyze *)

\* years of birth that put the age at and around each bracket boundary
BirthYears == {1936, 1964, 1965, 1966, 1984, 1985, 1986, 1990,
               2009, 2010, 2011, 2019, 2020, 2021, 2030}

Districts == {Missing, None, "Lucknow", "Ghaziabad", "Noida", "Kanpur Nagar",
              "Gorakhpur", "Agra", "Ballia"}

AnalyzeDobs ==
    {JAbsent, JStr(<<>>), JStr(<<"n", "/", "a">>)}
    \cup {DobOf(y, 1, 1) : y \in BirthYears}

AnalyzeProfiles ==
    {Profile(JAbsent, d, place, c, job) :
        d \in AnalyzeDobs, place \in Districts,
        c \in SUBSET {"Diabetes", "Asthma/COPD"},
        job \in {Missing, "Miner", "Teacher"}}

NoService ==
    /\ db_available = FALSE
    /\ store = <<>>
    /\ saved = <<>>
    /\ request = NoRequest
    /\ response = NoResponse

InitAnalyze ==
    /\ NoService
    /\ now_year \in Years
    /\ profile \in AnalyzeProfiles
    /\ env_data = base_data
    /\ result = NoResult
    /\ pc = "start"
    /\ dob_str = JAbsent
    /\ age = 0

\* lines 187-189
CallEnvironment ==
    /\ pc = "start"
    /\ env_data' = get_dynamic_environmental_data(GetOr(profile.core.district, "Lucknow"))
    /\ pc' = "env"
    /\ UNCHANGED <<db_available, store, saved, now_year, request, response,
                   profile, result, dob_str, age>>

\* lines 183-199
CallAnalyze ==
    /\ pc = "env"
    /\ result' = analyze_risk(profile, now_year)
    /\ pc' = "analyze_risk"
    /\ UNCHANGED <<db_available, store, saved, now_year, request, response,
                   profile, env_data, dob_str, age>>

NextAnalyze == CallEnvironment \/ CallAnalyze

SpecAnalyze == InitAnalyze /\ [][NextAnalyze]_vars

-----------------------------------------------------------------------------
(* The calculators applied to a profile and a snapshot: SpecCalc *)

MaxWeeks == 6
MaxDays == 6
MaxVector == 100

Hours == {4, 5, 9, 17, 20}
VectorIndexes == {0, 1, 3, 12, 28, 29, 60, MaxVector}
Aqis == {0, 100, 101, 150, 200, 201, 300, 301}

\* years of birth, one per age bracket
CalcDobs ==
    {JAbsent, JStr(<<"n", "/", "a">>)}
    \cup {DobOf(y, 6, 15) : y \in {1950, 1975, 2000, 2015, 2023}}

DengueInputs ==
    {<<Profile(JAbsent, d, place, c, Missing),
       [base_data EXCEPT !.weeks_since_monsoon_peak = w,
                         !.days_since_last_rain = r,
                         !.hour_of_day = h,
                         !.local_vector_index = v]>> :
        d \in CalcDobs, place \in {"Agra", "Ballia"},
        c \in {{}, {"Diabetes"}},
        w \in {0, 4, MaxWeeks}, r \in 0..MaxDays, h \in Hours, v \in VectorIndexes}

RespiratoryInputs ==
    {<<Profile(JAbsent, d, "Noida", c, job), [base_data EXCEPT !.aqi = a]>> :
        d \in CalcDobs, c \in SUBSET {"Diabetes", "Asthma/COPD"},
        job \in {Missing, "Miner", "Teacher"}, a \in Aqis}

InitCalc ==
    /\ NoService
    /\ now_year \in Years
    /\ \E input \in DengueInputs \cup RespiratoryInputs :
           /\ profile = input[1]
           /\ env_data = input[2]
    /\ result = NoResult
    /\ pc = "start"
    /\ dob_str = JAbsent
    /\ age = 0

CallDengue ==
    /\ pc = "start"
    /\ result' = calculate_dengue_risk(profile, env_data, now_year)
    /\ pc' = "calculate_dengue_risk"
    /\ UNCHANGED <<db_available, store, saved, now_year, request, response,
                   profile, env_data, dob_str, age>>

CallRespiratory ==
    /\ pc = "start"
    /\ result' = calculate_respiratory_risk(profile, env_data, now_year)
    /\ pc' = "calculate_respiratory_risk"
    /\ UNCHANGED <<db_available, store, saved, now_year, request, response,
                   profile, env_data, dob_str, age>>

NextCalc == CallDengue \/ CallRespiratory

SpecCalc == InitCalc /\ [][NextCalc]_vars

-----------------------------------------------------------------------------
(* The age utilities applied to a dob and to an age: SpecAge *)

MaxAge == 65
MaxUnborn == 3
Ages == (0 - MaxUnborn)..MaxAge

AgeDobs ==
    AbsentDobs \cup MalformedDobs \cup {JNum(0), JNum(1990), JBool(FALSE),
        JBool(TRUE), JList(0), Dob1990,
        DobOf(2024, 2, 29), DobOf(2030, 12, 31),
        JStr(<<"1", "9", "9", "0", "-", "1", "-", "1">>),
        JStr(<<"1", "9", "9", "0", "-", "1", "2", "-", " ", "1">>)}

InitAge ==
    /\ NoService
    /\ now_year \in Years
    /\ profile = EmptyProfile
    /\ env_data = base_data
    /\ result = NoResult
    /\ pc = "start"
    /\ dob_str \in AgeDobs
    /\ age \in Ages

\* lines 58-60
CallGetAge ==
    /\ pc = "start"
    /\ result' = get_age(dob_str, now_year)
    /\ pc' = "get_age"
    /\ UNCHANGED <<db_available, store, saved, now_year, request, response,
                   profile, env_data, dob_str, age>>

\* lines 62-67
CallGetAgeGroup ==
    /\ pc = "start"
    /\ result' = Returned(get_age_group(age))
    /\ pc' = "get_age_group"
    /\ UNCHANGED <<db_available, store, saved, now_year, request, response,
                   profile, env_data, dob_str, age>>

NextAge == CallGetAge \/ CallGetAgeGroup

SpecAge == InitAge /\ [][NextAge]_vars

-----------------------------------------------------------------------------
(* Properties *)

IsPrediction == request.op = "get_prediction"

\* the request names a user: a JSON object with a non-empty string name
NamesUser == request.is_object /\ request.name.t = "str" /\ request.name.s # <<>>

RequestId == document_id(request.name.s)

\* the dob is absent, empty, or a string that is not a date YYYY-MM-DD
BadDob(dob) == Falsy(dob) \/ (dob.t = "str" /\ strptime_year(dob.s).raised)

\* C1: get_age returns 30 for an absent, empty or unparseable dob, so a
\* prediction for a stored profile with such a dob answers 200.
C1_BadDobPredicts ==
    (/\ IsPrediction /\ NamesUser /\ db_available
     /\ RequestId \in DOMAIN store
     /\ BadDob(store[RequestId].core.dob))
    => /\ get_age(store[RequestId].core.dob, now_year) = Returned(30)
       /\ response.status = 200

\* the profile of the end-to-end example
C2Profile == Profile(JAbsent, Dob1990, "Ghaziabad", {"Asthma/COPD"}, Missing)

C2Case ==
    /\ pc = "analyze_risk"
    /\ profile = C2Profile
    /\ now_year - 1990 \in 16..40

\* the contribution of one parameter to a score card
Contribution(details, param) ==
    LET f[i \in 0..Len(details)] ==
            IF i = 0 THEN 0
            ELSE f[i - 1] + (IF details[i].param = param THEN details[i].score ELSE 0)
    IN  f[Len(details)]

\* C2 as stated: the example's Respiratory assessment is HIGH, with AQI
\* contribution 40, comorbidity contribution 80 and a total above 150.
C2_ExampleIsHigh ==
    C2Case =>
        /\ ~result.raised
        /\ LET r == result.value.risk_assessments[2]
           IN  /\ r.disease = "Respiratory Illness"
               /\ r.level = "HIGH"
               /\ Contribution(r.details, "AQI") = 40
               /\ Contribution(r.details, "Co-morbidity") = 80
               /\ r.score > 150

\* C2 amended: the example's Respiratory assessment is MODERATE, with AQI
\* contribution 30 (AQI 150 is in the >100 band), comorbidity contribution 80,
\* age contribution 8 and a total of 118.
C2_ExampleIsModerate ==
    C2Case =>
        /\ ~result.raised
        /\ LET r == result.value.risk_assessments[2]
           IN  /\ r.disease = "Respiratory Illness"
               /\ r.level = "MODERATE"
               /\ Contribution(r.details, "AQI") = 30
               /\ Contribution(r.details, "Co-morbidity") = 80
               /\ Contribution(r.details, "Age Group") = 8
               /\ r.score = 118

C2_Witness ==
    /\ C2Case
    /\ ~result.raised
    /\ result.value.environmental_conditions.aqi = 150

\* scoring the stored document fails
ScoringFails == analyze_risk(store[RequestId], now_year).raised

\* the response is one of the four outcomes, well formed
WellFormed ==
    /\ response.status \in {200, 400, 404, 500}
    /\ response.status = 200 =>
          /\ Len(response.predictions) = 1
          /\ Len(response.predictions[1].risk_assessments) = 2
    /\ response.status # 200 =>
          /\ response.predictions = <<>>
          /\ response.message # ""

\* C3 as stated: 400 without an identifier; otherwise 404 if no profile is
\* stored under the key; otherwise 500 if the store is unavailable or scoring
\* fails; otherwise 200.
C3_NotFoundBeforeUnavailable ==
    (IsPrediction /\ request.is_object /\ request.name.t \in {"absent", "null", "str"}) =>
        /\ WellFormed
        /\ response.status =
             IF Falsy(request.name) THEN 400
             ELSE IF RequestId \notin DOMAIN store THEN 404
             ELSE IF ~db_available \/ ScoringFails THEN 500
             ELSE 200

\* C3 amended: 500 if the body is no JSON object; otherwise 400 if the name is
\* missing or falsy (null, false, 0, the empty string, an empty array or
\* object), store initialised or not; otherwise 500 if the store is
\* unavailable or the name is no string; otherwise 404 if no profile is stored
\* under the key; otherwise 500 if scoring fails; otherwise 200 with
\* risk_assessments.
C3_UnavailableBeforeNotFound ==
    IsPrediction =>
        /\ WellFormed
        /\ response.status =
             IF ~request.is_object THEN 500
             ELSE IF Falsy(request.name) THEN 400
             ELSE IF ~db_available \/ request.name.t # "str" THEN 500
             ELSE IF RequestId \notin DOMAIN store THEN 404
             ELSE IF ScoringFails THEN 500
             ELSE 200

C3_Witness ==
    /\ IsPrediction
    /\ NamesUser
    /\ ~db_available
    /\ RequestId \notin DOMAIN store
    /\ response.status = 500

\* C4: with the store available, a prediction for name N answers 200 exactly
\* when an earlier successful save stored a profile whose core.name has N's
\* key, and then with the assessments of the profile saved last under that key
\* (the key 'unknown_user' of profiles saved without a name is left aside).
C4_PredictsIffSaved ==
    (IsPrediction /\ NamesUser /\ db_available /\ RequestId # unknown_user) =>
        /\ response.status = 200 <=> RequestId \in DOMAIN saved
        /\ response.status = 200 =>
              response.predictions = <<analyze_risk(saved[RequestId], now_year).value>>

\* C5: the snapshot is a function of the district alone: aqi is 150 in the
\* high-pollution districts and 110 elsewhere, the alert is "AES" in Gorakhpur
\* and "Dengue" elsewhere, and every other field has its base value; an
\* unrecognised district gets the base values.
C5_SnapshotByDistrict ==
    pc \in {"env", "analyze_risk"} =>
        LET d == IF profile.core.district = Missing THEN "Lucknow"
                 ELSE profile.core.district
        IN  /\ env_data.aqi = IF d \in {"Ghaziabad", "Noida", "Kanpur Nagar"}
                              THEN 150 ELSE 110
            /\ env_data.local_outbreak_alert = IF d = "Gorakhpur" THEN "AES" ELSE "Dengue"
            /\ env_data.timestamp = "2025-09-13T17:18:00"
            /\ env_data.season = "Post-Monsoon"
            /\ env_data.weeks_since_monsoon_peak = 4
            /\ env_data.days_since_last_rain = 4
            /\ env_data.hour_of_day = 17
            /\ env_data.temperature_c = 29
            /\ env_data.local_vector_index = 28
            /\ (pc = "analyze_risk" /\ ~result.raised) =>
                   result.value.environmental_conditions = env_data

C5_Witness ==
    /\ pc = "env"
    /\ profile.core.district = "Gorakhpur"
    /\ env_data.local_outbreak_alert = "AES"
    /\ env_data.aqi = 110

\* C6: get_age_group maps every age <= 5 to "0-5", 6..15 to "6-15", 16..40 to
\* "16-40", 41..60 to "41-60" and every age >= 61 to ">60".
C6_AgeBrackets ==
    pc = "get_age_group" =>
        /\ ~result.raised
        /\ result.value = "0-5" <=> age <= 5
        /\ result.value = "6-15" <=> age \in 6..15
        /\ result.value = "16-40" <=> age \in 16..40
        /\ result.value = "41-60" <=> age \in 41..60
        /\ result.value = ">60" <=> age >= 61

C6_Witness ==
    /\ pc = "get_age_group"
    /\ age = 60
    /\ result.value = "41-60"

IsDengue == pc = "calculate_dengue_risk" /\ ~result.raised

\* the Dengue score of the state's profile under a changed snapshot
DengueScore(env) == calculate_dengue_risk(profile, env, now_year).value.score

\* C7: the Dengue score does not decrease when local_vector_index alone, or
\* days_since_last_rain alone, increases; from days * 2 >= 10 on it is constant
\* in days_since_last_rain.
C7_DengueMonotone ==
    IsDengue =>
        /\ \A v \in VectorIndexes \cup {env_data.local_vector_index + 1} :
              v >= env_data.local_vector_index =>
                  DengueScore([env_data EXCEPT !.local_vector_index = v])
                      >= result.value.score
        /\ \A d \in 0..(MaxDays + 1) :
              d >= env_data.days_since_last_rain =>
                  /\ DengueScore([env_data EXCEPT !.days_since_last_rain = d])
                         >= result.value.score
                  /\ env_data.days_since_last_rain * 2 >= 10 =>
                         DengueScore([env_data EXCEPT !.days_since_last_rain = d])
                             = result.value.score

C7_Witness ==
    /\ IsDengue
    /\ env_data.days_since_last_rain = 5
    /\ env_data.local_vector_index = 3
    /\ DengueScore([env_data EXCEPT !.days_since_last_rain = 4]) < result.value.score
    /\ DengueScore([env_data EXCEPT !.local_vector_index = 1]) < result.value.score

LevelRank(level) ==
    CASE level = "LOW" -> 0
      [] level = "MODERATE" -> 1
      [] level = "HIGH" -> 2
      [] level = "VERY HIGH" -> 3

\* the state's profile with Diabetes added to its conditions
WithDiabetes ==
    calculate_dengue_risk(
        [profile EXCEPT !.lifestyle.conditions = @ \cup {"Diabetes"}],
        env_data, now_year).value

\* C8: adding "Diabetes" to a profile's conditions raises its Dengue score by
\* exactly 40 points and never lowers its level.
C8_DiabetesAdds40 ==
    (IsDengue /\ "Diabetes" \notin profile.lifestyle.conditions) =>
        /\ WithDiabetes.score = result.value.score + 40 * ScoreScale
        /\ LevelRank(WithDiabetes.level) >= LevelRank(result.value.level)

C8_Witness ==
    /\ IsDengue
    /\ "Diabetes" \notin profile.lifestyle.conditions
    /\ result.value.level = "MODERATE"
    /\ WithDiabetes.level = "HIGH"

\* the sum of the contributions a score card lists
SumOfDetails(details) ==
    LET f[i \in 0..Len(details)] ==
            IF i = 0 THEN 0 ELSE f[i - 1] + details[i].score
    IN  f[Len(details)]

\* C9: an assessment's score is the sum of its details, and its level is
\* decided by the score alone with strict thresholds: Dengue 300, 200, 100
\* and Respiratory 250, 150, 75.
C9_ScoreAndLevel ==
    /\ IsDengue =>
          /\ result.value.score = SumOfDetails(result.value.details)
          /\ result.value.level =
               IF result.value.score > 300 * ScoreScale THEN "VERY HIGH"
               ELSE IF result.value.score > 200 * ScoreScale THEN "HIGH"
               ELSE IF result.value.score > 100 * ScoreScale THEN "MODERATE"
               ELSE "LOW"
    /\ (pc = "calculate_respiratory_risk" /\ ~result.raised) =>
          /\ result.value.score = SumOfDetails(result.value.details)
          /\ result.value.level =
               IF result.value.score > 250 THEN "VERY HIGH"
               ELSE IF result.value.score > 150 THEN "HIGH"
               ELSE IF result.value.score > 75 THEN "MODERATE"
               ELSE "LOW"

\* a score exactly on the top threshold, with a score above it next to it
C9_Witness ==
    /\ IsDengue
    /\ env_data.local_vector_index = 60
    /\ result.value.score = 300 * ScoreScale
    /\ result.value.level = "HIGH"
    /\ calculate_dengue_risk(profile, [env_data EXCEPT !.local_vector_index = 100],
                             now_year).value.level = "VERY HIGH"

\* the Respiratory score of the state's profile moved to another district
RespiratoryScoreIn(district) ==
    analyze_risk([profile EXCEPT !.core.district = district], now_year)
        .value.risk_assessments[2].score

\* C10: against the fixed snapshot the Dengue level is MODERATE or HIGH, the
\* Respiratory level is LOW, MODERATE or HIGH, and the Respiratory score is the
\* same in every district.
C10_FixedSnapshotLevels ==
    (pc = "analyze_risk" /\ ~result.raised) =>
        LET dengue == result.value.risk_assessments[1]
            respiratory == result.value.risk_assessments[2]
        IN  /\ dengue.disease = "Dengue Fever"
            /\ dengue.level \in {"MODERATE", "HIGH"}
            /\ respiratory.disease = "Respiratory Illness"
            /\ respiratory.level \in {"LOW", "MODERATE", "HIGH"}
            /\ \A d \in Districts : RespiratoryScoreIn(d) = respiratory.score

C10_Witness ==
    /\ pc = "analyze_risk"
    /\ ~result.raised
    /\ profile.core.district = "Ghaziabad"
    /\ result.value.risk_assessments[1].level = "HIGH"
    /\ result.value.risk_assessments[2].level = "HIGH"

=============================================================================
